---------------------------- MODULE Spec2Model ----------------------------
(***************************************************************************)
(* A model of coreaudio-rs's AudioUnit handle and its render callback      *)
(* bridge: the control thread attaches, replaces, frees and tears down     *)
(* boxed closures, the OS keeps the registered (inputProc, refCon) pair    *)
(* and the render thread invokes the trampoline with it.                   *)
(*                                                                         *)
(* Two versions of the handle are in the sources and both are modelled:    *)
(*   "typed"  src/src/audio_unit/render_callback.rs (closure over Args<D>, *)
(*            validated against the stream format, public                  *)
(*            free_render_callback)                                        *)
(*   "boxed"  src/src/audio_unit/mod.rs (Option<Box<RenderCallback>>)      *)
(* Both are torn down by Drop for AudioUnit of src/src/audio_unit/mod.rs.  *)
(*                                                                         *)
(* The OS is an external collaborator.  Nothing is assumed of it beyond    *)
(* what the calls say: a property-set call that returns 0 has replaced the *)
(* stored value, one that fails has changed nothing, and the render thread *)
(* reads the registered pair when it begins an invocation.  No call of the *)
(* control thread waits for an invocation in flight: the sources hold no   *)
(* synchronisation with the render thread.                                 *)
(***************************************************************************)
EXTENDS Integers, Sequences, FiniteSets, TLC

\* The number of closures one run boxes (every call that boxes takes a fresh one).
MaxClosures == 3

None == 0       \* maybe_callback: Option::None; a refCon: the null pointer

ClosureIds == 1..MaxClosures

\* ---------------------------------------------------------------- formats

\* LinearPCMFlag bits (src/src/audio_unit/audio_format.rs:142-148).
IS_FLOAT == 1
IS_SIGNED_INTEGER == 4
IS_PACKED == 8
IS_NON_INTERLEAVED == 32

\* flags.contains(bit), for a single-bit flag
Contains(flags, bit) == (flags \div bit) % 2 = 1

SampleFormats == {"F32", "I32", "I16", "I8"}

\* SampleFormat::does_match_flags
does_match_flags(sample_format, flags) ==
    LET is_float == Contains(flags, IS_FLOAT)
        is_signed_integer == Contains(flags, IS_SIGNED_INTEGER)
    IN  IF sample_format = "F32"
        THEN is_float /\ ~is_signed_integer
        ELSE is_signed_integer /\ ~is_float

\* The Data implementors a render callback can be typed against.
Raw == [kind |-> "Raw", sample |-> "none"]
NonInterleaved(s) == [kind |-> "NonInterleaved", sample |-> s]
DataTypes == {Raw} \cup {NonInterleaved(s) : s \in SampleFormats}

\* No closure, no data type.
NoData == [kind |-> "none", sample |-> "none"]

\* The data types of the registered closures are not followed.
Untracked == [kind |-> "untracked", sample |-> "none"]

\* What the boxed handle's closure is given: `&mut [&mut [f32]]`, one slice
\* of f32 per buffer.
BoxedData == NonInterleaved("F32")

\* <D as Data>::does_stream_format_match
does_stream_format_match(D, format) ==
    IF D.kind = "Raw"
    THEN TRUE
    ELSE does_match_flags(D.sample, format.flags)

\* The stream formats the unit is configured with in this model:
\* f32 non-interleaved, f32 interleaved, i16 interleaved.
UnitFormats ==
    { [sample_format |-> "F32", flags |-> IS_FLOAT + IS_PACKED + IS_NON_INTERLEAVED, channels |-> 2],
      [sample_format |-> "F32", flags |-> IS_FLOAT + IS_PACKED, channels |-> 2],
      [sample_format |-> "I16", flags |-> IS_SIGNED_INTEGER + IS_PACKED, channels |-> 2] }

\* Scope::Output = 0, Scope::Input = 1
ScopeOutput == 0
ScopeInput == 1
Scopes == {ScopeOutput, ScopeInput}

\* ---------------------------------------------------------------- statuses

kAudioUnitErr_NoConnection == -10876
kAudioServicesSystemSoundUnspecifiedError == -1500
kAudioServicesSystemSoundClientTimedOutError == -1501

\* An Error: its variant; for Audio, AudioCodec, AudioFormat and AudioUnit
\* the wrapped family error and its discriminant, for Unknown the status.
ErrorOf(variant) == [variant |-> variant, inner |-> "none", code |-> 0]

\* Error::as_os_status (to_os_status in render_callback.rs).  `err as
\* OSStatus` is the wrapped error's discriminant.
as_os_status(err) ==
    CASE err.variant = "Unspecified" -> kAudioServicesSystemSoundUnspecifiedError
      [] err.variant = "NoMatchingDefaultAudioUnitFound" ->
             kAudioServicesSystemSoundUnspecifiedError
      [] err.variant = "RenderCallbackBufferFormatDoesNotMatchAudioUnitStreamFormat" ->
             kAudioServicesSystemSoundUnspecifiedError
      [] err.variant = "SystemSoundClientMessageTimedOut" ->
             kAudioServicesSystemSoundClientTimedOutError
      [] err.variant = "Audio" -> err.code
      [] err.variant = "AudioCodec" -> err.code
      [] err.variant = "AudioUnit" -> err.code
      [] OTHER -> kAudioServicesSystemSoundUnspecifiedError

\* ---------------------------------------------------------------- state

VARIABLES
    api,            \* "typed" | "boxed": the version of the handle
    os_format,      \* [Scopes -> UnitFormats]: kAudioUnitProperty_StreamFormat, element 0
    os_callback,    \* [set, refcon]: kAudioUnitProperty_SetRenderCallback as the OS holds
                    \* it; view: history, the data type of the closure at refcon,
                    \* followed by FormatSpec alone
    running,        \* AudioOutputUnitStart has succeeded and no stop since
    initialized,    \* AudioUnitInitialize'd and not yet uninitialized
    maybe_callback, \* AudioUnit.maybe_callback: None or the boxed closure's pointer
    next_id,        \* the next closure to be boxed
    drop_count,     \* [ClosureIds -> Nat]: how often each boxed closure was dropped
    released_by,    \* [ClosureIds -> ...]: history: the operation that dropped it
    pc,             \* the control thread's position
    call,           \* history: the attach or detach call in progress or last returned
    lifecycle,      \* "alive" | "dropping" | "dropped" | "panicked"
    teardown_log,   \* history: the OS calls and releases Drop has made, in order
    process,        \* "up" | "crashed"
    rt_pc,          \* the render thread: "idle" | "in_closure"
    rt_ref,         \* the refCon of the invocation in flight
    rt_deref,       \* history: what that refCon pointed to when dereferenced
    rt_last,        \* the outcome of the last finished invocation
    replacements,   \* history: successful set_render_callback calls that replaced a callback
    asbd,           \* the AudioStreamBasicDescription given to from_asbd
    decoded,        \* the StreamFormat at hand: from_asbd's result, or one built field by field
    encoded,        \* to_asbd's result for it
    io,             \* the arguments of the trampoline invocation under study
    io_pc,          \* that invocation: "idle" | "in_closure"
    cb_args,        \* what the closure was called with
    chan,           \* the Channels / ChannelsMut iterator the closure holds
    heap,           \* heap allocations made by the invocation before the closure is called
    clock,          \* the OS's sample time, the invocations it has made and, as
                    \* history, the num_frames and time_stamp it passed to each
    err_call,       \* the from_os_status called last: which one, its argument, its result
    err_back,       \* as_os_status of that result's error
    pcm_call,       \* AudioFormat::from_format_and_flag's arguments and result, and
                    \* to_format_and_flag of that result
    flag_word,      \* the AudioUnitRenderActionFlags word an action_flags::Handle
                    \* points to
    flag_op,        \* the last Handle operation, its argument and the word before it
    device,         \* the audio device: its nominal sample rate, whether the OS
                    \* holds a rate listener for it, the notifications it owes
    listener,       \* the RateListener: its fields and the owner of its Mutex
    os_thread,      \* the OS thread's position in the rate_listener callback
    poll,           \* the user's last call on a RateListener and what it returned
    received,       \* the rates of the notifications queued since the last drain
    receiver,       \* the Receiver of set_device_sample_rate's channel
    set_call        \* set_device_sample_rate: its position, locals and result

unit_vars == <<api, os_format, os_callback, running, initialized, maybe_callback,
               next_id, drop_count, released_by, pc, call, lifecycle, teardown_log,
               process, rt_pc, rt_ref, rt_deref, rt_last, replacements>>

conv_vars == <<asbd, decoded, encoded>>

io_vars == <<io, io_pc, cb_args, chan, heap, clock>>

err_vars == <<err_call, err_back>>

flag_vars == <<flag_word, flag_op>>
rate_vars == <<device, listener, os_thread, poll, received, receiver, set_call>>
aux_vars == <<err_vars, pcm_call, flag_vars, rate_vars>>

vars == <<unit_vars, conv_vars, io_vars, aux_vars>>

handle_vars == <<maybe_callback, next_id, drop_count, released_by, replacements>>
rt_vars == <<rt_pc, rt_ref, rt_deref, rt_last>>
drop_vars == <<lifecycle, teardown_log>>

\* call.ptr: the pointer the call boxed (set_render_callback) or took from
\* the handle (free_render_callback); call.os_set: it made the OS
\* property-set call
NoCall == [op |-> "none", ptr |-> None, os_set |-> FALSE, result |-> "none"]

NoOutcome == [kind |-> "none", status |-> 0, result |-> "none"]

\* No descriptor, no StreamFormat: the conversions have not been called.
NoAsbd ==
    [mSampleRate |-> 0, mFormatID |-> 0, mFormatFlags |-> 0, mBytesPerPacket |-> 0,
     mFramesPerPacket |-> 0, mBytesPerFrame |-> 0, mChannelsPerFrame |-> 0,
     mBitsPerChannel |-> 0, mReserved |-> 0]

NoFormat == [sample_rate |-> 0, sample_format |-> "none", flags |-> 0, channels |-> 0]

ConvIdle ==
    /\ asbd = NoAsbd
    /\ decoded = [status |-> "none", format |-> NoFormat]
    /\ encoded = [status |-> "none", asbd |-> NoAsbd]

\* No invocation of the trampoline is under study.
NoIo ==
    [num_frames |-> 0, bus_number |-> 0, time_stamp |-> 0, mNumberBuffers |-> 0,
     mNumberChannels |-> 0]

\* A slice is its first element's address and its length; no slice.
NoSlice == [ptr |-> 0, len |-> 0]

NoView == [num_buffers |-> 0, frames |-> 0]

\* calls: how often this invocation has called the closure; log: history,
\* the num_frames and time_stamp of every call so far
NoArgs == [calls |-> 0, num_frames |-> 0, bus_number |-> 0, time_stamp |-> 0,
           data |-> NoView, slices |-> <<>>, log |-> <<>>]

\* index, n, frames: the iterator's fields; opened, made, last, ended:
\* history of the iterators this invocation's closure has made
NoChan == [open |-> FALSE, index |-> 0, n |-> 0, frames |-> 0,
           opened |-> 0, made |-> 0, last |-> NoSlice, ended |-> FALSE]

NoError == ErrorOf("none")

\* No from_os_status has been called.
ErrIdle ==
    /\ err_call = [fn |-> "none", os_status |-> 0, ok |-> TRUE, err |-> NoError]
    /\ err_back = [done |-> FALSE, os_status |-> 0]

\* No AudioFormat has been decoded.
PcmIdle ==
    pcm_call = [format |-> 0, flag |-> [some |-> FALSE, value |-> 0],
                decoded |-> [some |-> FALSE,
                             value |-> [variant |-> "none",
                                        flag |-> [some |-> FALSE, value |-> 0]]],
                encoded |-> [done |-> FALSE, format |-> 0,
                             flag |-> [some |-> FALSE, value |-> 0]]]

\* No Handle has been made.
FlagsIdle ==
    /\ flag_word = {}
    /\ flag_op = [op |-> "none", other |-> {}, before |-> {}]

\* A RateListener not yet made
NoListener ==
    [state |-> "none", sync_channel |-> FALSE, rate_listener |-> FALSE,
     queue |-> <<>>, lock |-> "none"]

\* No RateListener has been made and set_device_sample_rate has not been called.
RateIdle ==
    /\ device = [rate |-> 88200, registered |-> FALSE, pending |-> 0,
                 notified |-> 0, writes |-> 0]
    /\ listener = NoListener
    /\ os_thread = [pc |-> "idle", rate |-> 0, seen |-> <<>>]
    /\ poll = [pc |-> "idle", fn |-> "none", seen |-> <<>>, result |-> <<>>, nbr |-> 0,
               history |-> <<>>, left |-> <<>>, was_set |-> FALSE,
               os_calls |-> 0, status |-> [ok |-> TRUE, err |-> NoError]]
    /\ received = <<>>
    /\ receiver = [open |-> FALSE, q |-> <<>>]
    /\ set_call = [pc |-> "idle", new_rate |-> 0, already |-> FALSE, available |-> FALSE,
                   wrote |-> FALSE, registered |-> FALSE, reported |-> FALSE,
                   elapsed |-> 0, result |-> [ok |-> TRUE, err |-> NoError]]

AuxIdle == ErrIdle /\ PcmIdle /\ FlagsIdle /\ RateIdle

IoIdle ==
    /\ io = NoIo
    /\ io_pc = "idle"
    /\ cb_args = NoArgs
    /\ chan = NoChan
    /\ heap = 0
    /\ clock = [time |-> 0, count |-> 0, sent |-> <<>>]

\* A freshly constructed AudioUnit: initialized, not started, no callback.
Fresh(view) ==
    /\ api \in {"typed", "boxed"}
    /\ \E f \in UnitFormats : os_format = [s \in Scopes |-> f]
    /\ os_callback = [set |-> FALSE, refcon |-> None, view |-> view]
    /\ running = FALSE
    /\ initialized = TRUE
    /\ maybe_callback = None
    /\ next_id = 1
    /\ drop_count = [c \in ClosureIds |-> 0]
    /\ released_by = [c \in ClosureIds |-> "none"]
    /\ pc = "idle"
    /\ call = NoCall
    /\ lifecycle = "alive"
    /\ teardown_log = <<>>
    /\ process = "up"
    /\ rt_pc = "idle"
    /\ rt_ref = None
    /\ rt_deref = "none"
    /\ rt_last = NoOutcome
    /\ replacements = 0

UnitInit == Fresh(Untracked)

Init ==
    /\ UnitInit
    /\ ConvIdle
    /\ IoIdle
    /\ AuxIdle

\* The control thread may begin an operation on the handle.
Callable == process = "up" /\ lifecycle = "alive" /\ pc = "idle"

\* ------------------------------------------------- free_render_callback

\* (mutant) the pointer is read and left in the slot
take_slot_kept(mc) == mc

\* self.maybe_callback.take(): what the slot holds afterwards
take_slot(mc) == None

\* Box::from_raw(callback) going out of scope: the closure is dropped
free_render_callback_drops(mc, dc) ==
    IF mc # None THEN [dc EXCEPT ![mc] = @ + 1] ELSE dc

\* history of who released what
ReleasedBy(mc, rb, who) ==
    IF mc # None THEN [rb EXCEPT ![mc] = who] ELSE rb

\* AudioUnit::free_render_callback, public in the typed handle
FreeRenderCallback ==
    /\ Callable
    /\ api = "typed"
    /\ drop_count' = free_render_callback_drops(maybe_callback, drop_count)
    /\ released_by' = ReleasedBy(maybe_callback, released_by, "free")
    /\ maybe_callback' = take_slot(maybe_callback)
    /\ call' = [NoCall EXCEPT !.op = "free_render_callback", !.ptr = maybe_callback,
                              !.result = "Ok"]
    /\ UNCHANGED <<conv_vars, io_vars, aux_vars, api, os_format, os_callback, running, initialized, next_id,
                   pc, process, replacements>>
    /\ UNCHANGED drop_vars
    /\ UNCHANGED rt_vars

\* -------------------------------------------------- set_render_callback

\* AudioUnit::stream_format: the property is read at Scope::Output,
\* Element::Output.
stream_format == os_format[ScopeOutput]

\* (mutant) the format check never rejects
FormatAcceptedAlways(D, format) == TRUE

\* `if !D::does_stream_format_match(&stream_format) { return Err(..) }`
FormatAccepted(D, format) == does_stream_format_match(D, format)

\* The call returns without having changed the handle or the OS.
ReturnEarly(c) ==
    /\ call' = c
    /\ UNCHANGED <<conv_vars, io_vars, aux_vars, api, os_format, os_callback, running, initialized, pc, process>>
    /\ UNCHANGED handle_vars
    /\ UNCHANGED drop_vars
    /\ UNCHANGED rt_vars

\* (mutant) a failed property-set call is not returned from
after_set_property_unchecked(set_ok) == "registered"

\* `try!(self.set_property(..))` / `try_os_status!(AudioUnitSetProperty(..))`:
\* where the control thread is after the call, within set_render_callback
\* or back at the caller
after_set_property(set_ok) == IF set_ok THEN "registered" ELSE "idle"

\* Box the closure as `ptr` and hand it to AudioUnitSetProperty(
\* kAudioUnitProperty_SetRenderCallback, Scope::Input, Element::Output).
\* `try!` returns on a failure, and the box just made is never reclaimed.
RegisterWithOS(c, ptr, set_ok, D) ==
    /\ next_id' = IF ptr # None THEN next_id + 1 ELSE next_id
    /\ IF set_ok
       THEN /\ os_callback' = [set |-> TRUE, refcon |-> ptr,
                               view |-> IF os_callback.view = Untracked
                                        THEN Untracked ELSE D]
            /\ pc' = after_set_property(set_ok)
            /\ call' = [c EXCEPT !.ptr = ptr, !.os_set = TRUE, !.result = "pending"]
       ELSE /\ os_callback' = os_callback
            /\ pc' = after_set_property(set_ok)
            /\ call' = [c EXCEPT !.ptr = ptr, !.os_set = TRUE, !.result = "OSError"]
    /\ UNCHANGED <<conv_vars, io_vars, aux_vars, api, os_format, running, initialized, process,
                   maybe_callback, drop_count, released_by, replacements>>
    /\ UNCHANGED drop_vars
    /\ UNCHANGED rt_vars

\* AudioUnit::set_render_callback::<F, D> of the typed handle, up to and
\* including the property-set call.
SetRenderCallbackTyped(D) ==
    /\ Callable
    /\ api = "typed"
    /\ \E get_ok \in BOOLEAN, set_ok \in BOOLEAN :
         LET c == [NoCall EXCEPT !.op = "set_render_callback"]
         IN  IF ~get_ok
             THEN ReturnEarly([c EXCEPT !.result = "OSError"])
             ELSE IF ~FormatAccepted(D, stream_format)
             THEN ReturnEarly([c EXCEPT !.result = "FormatMismatch"])
             ELSE /\ next_id <= MaxClosures
                  /\ RegisterWithOS(c, next_id, set_ok, D)

\* AudioUnit::set_render_callback(Option<Box<RenderCallback>>) of the boxed
\* handle, up to and including the property-set call.  With None the
\* trampoline is registered with a null refCon.
SetRenderCallbackBoxed(some) ==
    /\ Callable
    /\ api = "boxed"
    /\ some => next_id <= MaxClosures
    /\ \E set_ok \in BOOLEAN :
         RegisterWithOS([NoCall EXCEPT !.op = "set_render_callback"],
                        IF some THEN next_id ELSE None, set_ok,
                        IF some THEN BoxedData ELSE NoData)

\* (mutant) the previous callback is not freed
replace_drops_skipped(mc, dc) == dc

\* `self.free_render_callback();` after the property was set
replace_drops(mc, dc) == free_render_callback_drops(mc, dc)

\* The rest of set_render_callback: free the previous callback, store the
\* new pointer, return Ok.
SetRenderCallbackStore ==
    /\ process = "up"
    /\ pc = "registered"
    /\ drop_count' = replace_drops(maybe_callback, drop_count)
    /\ released_by' = ReleasedBy(maybe_callback, released_by,
                                 IF call.ptr # None THEN "replace" ELSE "detach")
    /\ replacements' = IF maybe_callback # None /\ call.ptr # None
                       THEN replacements + 1 ELSE replacements
    /\ maybe_callback' = call.ptr
    /\ call' = [call EXCEPT !.result = "Ok"]
    /\ pc' = "idle"
    /\ UNCHANGED <<conv_vars, io_vars, aux_vars, api, os_format, os_callback, running, initialized, next_id, process>>
    /\ UNCHANGED drop_vars
    /\ UNCHANGED rt_vars

\* ------------------------------------------------------ start, stop, format

\* AudioUnit::start: AudioOutputUnitStart
Start ==
    /\ Callable
    /\ \E ok \in BOOLEAN :
         running' = IF ok THEN TRUE ELSE running
    /\ UNCHANGED <<conv_vars, io_vars, aux_vars, api, os_format, os_callback, initialized, pc, process, call>>
    /\ UNCHANGED handle_vars
    /\ UNCHANGED drop_vars
    /\ UNCHANGED rt_vars

\* AudioUnit::stop: AudioOutputUnitStop
Stop ==
    /\ Callable
    /\ \E ok \in BOOLEAN :
         running' = IF ok THEN FALSE ELSE running
    /\ UNCHANGED <<conv_vars, io_vars, aux_vars, api, os_format, os_callback, initialized, pc, process, call>>
    /\ UNCHANGED handle_vars
    /\ UNCHANGED drop_vars
    /\ UNCHANGED rt_vars

\* AudioUnit::set_stream_format: the property is written at
\* kAudioUnitScope_Input, element 0.
SetStreamFormat(f) ==
    /\ Callable
    /\ \E ok \in BOOLEAN :
         os_format' = IF ok THEN [os_format EXCEPT ![ScopeInput] = f] ELSE os_format
    /\ UNCHANGED <<conv_vars, io_vars, aux_vars, api, os_callback, running, initialized, pc, process, call>>
    /\ UNCHANGED handle_vars
    /\ UNCHANGED drop_vars
    /\ UNCHANGED rt_vars

\* ------------------------------------------------------------------ Drop

\* (mutant) the callback is freed before the unit is stopped
DropSequenceFreeFirst == <<"free_render_callback", "stop", "uninitialize">>

\* Drop for AudioUnit: the calls it makes, in the order it makes them
DropSequence == <<"stop", "uninitialize", "free_render_callback">>

NextDropStep ==
    IF Len(teardown_log) < Len(DropSequence)
    THEN DropSequence[Len(teardown_log) + 1]
    ELSE "none"

\* The handle goes out of scope.
Drop ==
    /\ Callable
    /\ lifecycle' = "dropping"
    /\ pc' = "drop"
    /\ UNCHANGED <<conv_vars, io_vars, aux_vars, api, os_format, os_callback, running, initialized, call,
                   process, teardown_log>>
    /\ UNCHANGED handle_vars
    /\ UNCHANGED rt_vars

\* A step of drop() has been made: its caller goes on, panics on an error
\* status (`panic!("{:?}", err.description())`), or is done.
DropStepDone(step, ok) ==
    /\ teardown_log' = Append(teardown_log, step)
    /\ IF ~ok
       THEN lifecycle' = "panicked" /\ pc' = "unwinding"
       ELSE IF Len(teardown_log) + 1 = Len(DropSequence)
       THEN lifecycle' = "dropped" /\ pc' = "done"
       ELSE lifecycle' = lifecycle /\ pc' = pc

\* `if let Err(err) = self.stop() { panic!(..) }`
DropStop ==
    /\ process = "up"
    /\ pc = "drop"
    /\ NextDropStep = "stop"
    /\ \E ok \in BOOLEAN :
         /\ running' = IF ok THEN FALSE ELSE running
         /\ DropStepDone("stop", ok)
    /\ UNCHANGED <<conv_vars, io_vars, aux_vars, api, os_format, os_callback, initialized, call, process>>
    /\ UNCHANGED handle_vars
    /\ UNCHANGED rt_vars

\* `if let Err(err) = from_os_status(AudioUnitUninitialize(..)) { panic!(..) }`
DropUninitialize ==
    /\ process = "up"
    /\ pc = "drop"
    /\ NextDropStep = "uninitialize"
    /\ \E ok \in BOOLEAN :
         /\ initialized' = IF ok THEN FALSE ELSE initialized
         /\ DropStepDone("uninitialize", ok)
    /\ UNCHANGED <<conv_vars, io_vars, aux_vars, api, os_format, os_callback, running, call, process>>
    /\ UNCHANGED handle_vars
    /\ UNCHANGED rt_vars

\* `self.free_render_callback();`
DropFree ==
    /\ process = "up"
    /\ pc = "drop"
    /\ NextDropStep = "free_render_callback"
    /\ drop_count' = free_render_callback_drops(maybe_callback, drop_count)
    /\ released_by' = ReleasedBy(maybe_callback, released_by, "drop")
    /\ maybe_callback' = take_slot(maybe_callback)
    /\ DropStepDone("free_render_callback", TRUE)
    /\ UNCHANGED <<conv_vars, io_vars, aux_vars, api, os_format, os_callback, running, initialized, call,
                   process, next_id, replacements>>
    /\ UNCHANGED rt_vars

\* ---------------------------------------------------------- render thread

\* What the refCon handed to the trampoline points to.
Target(r) ==
    IF r = None THEN "null"
    ELSE IF drop_count[r] > 0 THEN "freed"
    ELSE "live"

\* The OS calls input_proc with the registered refCon, and input_proc
\* dereferences it: `(*(*wrapper).callback)(..)`, `(*callback)(..)`.  A
\* freed or null refCon is undefined behaviour: the invocation faults, or
\* goes on with whatever the memory holds.
RenderBegin ==
    /\ process = "up"
    /\ rt_pc = "idle"
    /\ running
    /\ os_callback.set
    /\ rt_ref' = os_callback.refcon
    /\ rt_deref' = Target(os_callback.refcon)
    /\ \/ rt_pc' = "in_closure" /\ process' = process
       \/ /\ Target(os_callback.refcon) # "live"
          /\ rt_pc' = "faulted"
          /\ process' = "crashed"
    /\ UNCHANGED <<conv_vars, io_vars, aux_vars, api, os_format, os_callback, running, initialized, pc, call, rt_last>>
    /\ UNCHANGED handle_vars
    /\ UNCHANGED drop_vars

\* (mutant) every result is reported as success
input_proc_status_zero(a, result) == 0

\* The status the trampoline returns for the closure's result: the match at
\* the end of input_proc_fn (typed) and of input_proc (boxed).
input_proc_status(a, result) ==
    IF result = "Ok"
    THEN 0
    ELSE IF a = "typed"
    THEN as_os_status(ErrorOf("Unspecified"))
    ELSE kAudioUnitErr_NoConnection

\* The closure finishes: it returns Ok(()) or Err, or it panics.  The boxed
\* trampoline writes an Err's description to stderr and unwraps the write.
\* Nothing in input_proc catches a panic: it leaves the extern "C" function,
\* which unwinds into the OS's frames or aborts the process.
RenderReturn ==
    /\ process = "up"
    /\ rt_pc = "in_closure"
    /\ \E result \in {"Ok", "Err", "Panic"}, stderr_ok \in BOOLEAN :
         IF result = "Panic" \/ (api = "boxed" /\ result = "Err" /\ ~stderr_ok)
         THEN /\ \E k \in {"unwound", "aborted"} :
                   rt_last' = [kind |-> k, status |-> 0, result |-> result]
              /\ rt_pc' = "faulted"
              /\ process' = "crashed"
              /\ UNCHANGED <<rt_ref, rt_deref>>
         ELSE /\ rt_last' = [kind |-> "returned",
                             status |-> input_proc_status(api, result),
                             result |-> result]
              /\ rt_pc' = "idle"
              /\ rt_ref' = None
              /\ rt_deref' = "none"
              /\ process' = process
    /\ UNCHANGED <<conv_vars, io_vars, aux_vars, api, os_format, os_callback, running, initialized, pc, call>>
    /\ UNCHANGED handle_vars
    /\ UNCHANGED drop_vars

Next ==
    \/ FreeRenderCallback
    \/ \E D \in DataTypes : SetRenderCallbackTyped(D)
    \/ \E some \in BOOLEAN : SetRenderCallbackBoxed(some)
    \/ SetRenderCallbackStore
    \/ Start
    \/ Stop
    \/ \E f \in UnitFormats : SetStreamFormat(f)
    \/ Drop
    \/ DropStop
    \/ DropUninitialize
    \/ DropFree
    \/ RenderBegin
    \/ RenderReturn

Spec == Init /\ [][Next]_vars

\* The calls that decide which data type meets which stream format:
\* set_stream_format and set_render_callback in any order on a fresh handle,
\* start, and the invocations of the trampoline.  The data type of the
\* registered closure is followed.
FormatInit ==
    /\ Fresh(NoData)
    /\ ConvIdle
    /\ IoIdle
    /\ AuxIdle

FormatNext ==
    \/ \E D \in DataTypes : SetRenderCallbackTyped(D)
    \/ \E some \in BOOLEAN : SetRenderCallbackBoxed(some)
    \/ SetRenderCallbackStore
    \/ Start
    \/ \E f \in UnitFormats : SetStreamFormat(f)
    \/ RenderBegin
    \/ RenderReturn

FormatSpec == FormatInit /\ [][FormatNext]_vars

\* ------------------------------------------- StreamFormat <-> ASBD

\* The largest channel count of the small descriptors.
MaxChannels == 2

\* A channel count at which 4-byte samples no longer fit a u32 byte count
\* (channels is a u32; the checker's integers end at 2^31 - 1).
HugeChannels == 2^30

ChannelCounts == (0..MaxChannels) \cup {HugeChannels}

\* mFormatID of linear PCM and of one compressed format (AC-3).
kAudioFormatLinearPCM == 1819304813
kAudioFormatAC3 == 1633889587

\* SampleFormat::size_in_bytes
size_in_bytes(sample_format) ==
    CASE sample_format = "F32" -> 4
      [] sample_format = "I32" -> 4
      [] sample_format = "I16" -> 2
      [] sample_format = "I8" -> 1

\* AudioFormat::from_format_and_flag(mFormatID, Some(mFormatFlags)) as
\* from_asbd uses it: LinearPCM carries the LinearPcmFlags bit set.  The
\* audio_format.rs at hand is an older one (LinearPCM(Option<LinearPCMFlag>));
\* the one from_asbd is written against is not among the sources.
from_format_and_flag(format, flag) ==
    IF format = kAudioFormatLinearPCM
    THEN [format |-> "LinearPCM", flags |-> flag]
    ELSE IF format = kAudioFormatAC3
    THEN [format |-> "AC3", flags |-> 0]
    ELSE [format |-> "None", flags |-> 0]

\* AudioFormat::LinearPCM(flags).as_format_and_flag(): the format id and
\* Some(flags.bits()); not among the sources either.
as_format_and_flag(flags) == [format |-> kAudioFormatLinearPCM, flag |-> flags]

\* SampleFormat::from_flags_and_bits_per_sample
from_flags_and_bits_per_sample(flags, bits_per_sample) ==
    IF ~Contains(flags, IS_PACKED)
    THEN "None"
    ELSE IF Contains(flags, IS_FLOAT)
    THEN (IF bits_per_sample = 32 THEN "F32" ELSE "None")
    ELSE IF Contains(flags, IS_SIGNED_INTEGER)
    THEN CASE bits_per_sample = 8 -> "I8"
           [] bits_per_sample = 16 -> "I16"
           [] bits_per_sample = 32 -> "I32"
           [] OTHER -> "None"
    ELSE "None"

\* SampleFormat::from_flags_and_bytes_per_frame, which from_asbd calls and
\* the sample_format.rs at hand does not define: the inference of
\* from_flags_and_bits_per_sample, on the width the byte count stands for.
from_flags_and_bytes_per_frame(flags, bytes_per_frame) ==
    from_flags_and_bits_per_sample(flags, bytes_per_frame * 8)

NotSupported == [status |-> "FormatNotSupported", format |-> NoFormat]

\* StreamFormat::from_asbd.  Of the descriptor it reads mSampleRate,
\* mFormatID, mFormatFlags, mBytesPerFrame and mChannelsPerFrame, nothing else.
from_asbd(x) ==
    LET audio_format == from_format_and_flag(x.mFormatID, x.mFormatFlags)
    IN  IF audio_format.format # "LinearPCM"
        THEN NotSupported
        ELSE LET flags == audio_format.flags
                 sample_format == from_flags_and_bytes_per_frame(flags, x.mBytesPerFrame)
             IN  IF sample_format = "None"
                 THEN NotSupported
                 ELSE [status |-> "Ok",
                       format |-> [sample_rate |-> x.mSampleRate,
                                   sample_format |-> sample_format,
                                   flags |-> flags,
                                   channels |-> x.mChannelsPerFrame]]

\* a * b in u32, for a < 2^16: whether it overflows, and the wrapped product
\* (computed on 16-bit halves).
mul_u32(a, b) ==
    LET lo == a * (b % 65536)
        hi == a * (b \div 65536) + (lo \div 65536)
    IN  [overflow |-> hi >= 65536,
         value |-> (hi % 65536) * 65536 + (lo % 65536)]

\* The products to_asbd computes for `format` stay within the checker's integers.
InRange(format) ==
    \/ Contains(format.flags, IS_NON_INTERLEAVED)
    \/ LET lo == size_in_bytes(format.sample_format) * (format.channels % 65536)
           hi == size_in_bytes(format.sample_format) * (format.channels \div 65536)
                    + (lo \div 65536)
       IN  hi % 65536 < 32768

\* to_asbd's bytes_per_frame
bytes_per_frame_of(format) ==
    IF Contains(format.flags, IS_NON_INTERLEAVED)
    THEN [overflow |-> FALSE, value |-> size_in_bytes(format.sample_format)]
    ELSE mul_u32(size_in_bytes(format.sample_format), format.channels)

\* StreamFormat::to_asbd.  A build with overflow checks panics where the
\* u32 product overflows, one without wraps; the division panics on a zero
\* channel count in every build.
to_asbd(format, overflow_checks) ==
    LET fmt == as_format_and_flag(format.flags)
        non_interleaved == Contains(format.flags, IS_NON_INTERLEAVED)
        product == bytes_per_frame_of(format)
        bytes_per_frame == product.value
        FRAMES_PER_PACKET == 1
        bytes_per_packet == bytes_per_frame * FRAMES_PER_PACKET
    IN  IF product.overflow /\ overflow_checks
        THEN [status |-> "overflow", asbd |-> NoAsbd]
        ELSE IF ~non_interleaved /\ format.channels = 0
        THEN [status |-> "divide_by_zero", asbd |-> NoAsbd]
        ELSE [status |-> "Ok",
              asbd |-> [mSampleRate |-> format.sample_rate,
                        mFormatID |-> fmt.format,
                        mFormatFlags |-> fmt.flag,
                        mBytesPerPacket |-> bytes_per_packet,
                        mFramesPerPacket |-> FRAMES_PER_PACKET,
                        mBytesPerFrame |-> bytes_per_frame,
                        mChannelsPerFrame |-> format.channels,
                        mBitsPerChannel |->
                            IF non_interleaved
                            THEN bytes_per_frame * 8
                            ELSE (bytes_per_frame \div format.channels) * 8,
                        mReserved |-> 0]]

\* The descriptors handed to from_asbd: linear PCM or AC-3, every combination
\* of the four flags, the byte counts of 0 to MaxChannels samples of 1, 2 or
\* 4 bytes (and 3), bit widths from 8 to 64.
FlagSets ==
    { a + b + c + d : a \in {0, IS_FLOAT}, b \in {0, IS_SIGNED_INTEGER},
                      c \in {0, IS_PACKED}, d \in {0, IS_NON_INTERLEAVED} }

ByteCounts == {0, 3} \cup { s * c : s \in {1, 2, 4}, c \in 1..MaxChannels }

AsbdInputs ==
    { [mSampleRate |-> 44100, mFormatID |-> id, mFormatFlags |-> fl,
       mBytesPerPacket |-> bpf, mFramesPerPacket |-> 1, mBytesPerFrame |-> bpf,
       mChannelsPerFrame |-> ch, mBitsPerChannel |-> bits, mReserved |-> 0] :
         id \in {kAudioFormatLinearPCM, kAudioFormatAC3}, fl \in FlagSets,
         bpf \in ByteCounts, ch \in ChannelCounts, bits \in {8, 16, 32, 64} }

\* The StreamFormats a caller builds field by field (all fields are pub).
StreamFormatInputs ==
    { f \in [sample_rate : {44100}, sample_format : SampleFormats,
             flags : {fl \in FlagSets : Contains(fl, IS_PACKED)},
             channels : ChannelCounts] :
        does_match_flags(f.sample_format, f.flags) }

\* StreamFormat::from_asbd(x)
FromAsbd(x) ==
    /\ decoded.status = "none"
    /\ asbd' = x
    /\ decoded' = from_asbd(x)
    /\ UNCHANGED encoded
    /\ UNCHANGED <<unit_vars, io_vars, aux_vars>>

\* StreamFormat { sample_rate, sample_format, flags, channels }
Construct(f) ==
    /\ decoded.status = "none"
    /\ decoded' = [status |-> "Constructed", format |-> f]
    /\ UNCHANGED <<asbd, encoded>>
    /\ UNCHANGED <<unit_vars, io_vars, aux_vars>>

\* format.to_asbd(), on the StreamFormat at hand
ToAsbd ==
    /\ decoded.status \in {"Ok", "Constructed"}
    /\ encoded.status = "none"
    /\ InRange(decoded.format)
    /\ \E overflow_checks \in BOOLEAN :
         encoded' = to_asbd(decoded.format, overflow_checks)
    /\ UNCHANGED <<asbd, decoded>>
    /\ UNCHANGED <<unit_vars, io_vars, aux_vars>>

ConvNext ==
    \/ \E x \in AsbdInputs : FromAsbd(x)
    \/ \E f \in StreamFormatInputs : Construct(f)
    \/ ToAsbd

ConvSpec == Init /\ [][ConvNext]_vars

\* ------------------------------------------- one trampoline invocation

\* The buffers a native buffer list declares, beyond the two channels of
\* the formats above, and the invocations and iterators of one run.
MaxBuffers == 3
MaxInvocations == 2
MaxIterators == 2

\* `mBuffers: [AudioBuffer; 128]`, the fixed array of the AudioBufferList binding
BufferListCapacity == 128

\* The boxed closure's signature has no such argument.
NotPassed == -1

FrameCounts == {1, 512}

\* What the OS hands to input_proc, the time stamp apart.  mNumberBuffers is
\* what the list declares: any count up to MaxBuffers, or one beyond the
\* array.  Every buffer of a list has the same mNumberChannels here.
IoInputs ==
    [num_frames : FrameCounts, bus_number : {0, 1},
     mNumberBuffers : (0..MaxBuffers) \cup {BufferListCapacity + 2},
     mNumberChannels : {1, 2}]

\* (*io_data).mBuffers[i]: buffer i's data starts at address i + 1.  The
\* slots from mNumberBuffers on are spare: their contents are the OS's.
mBuffers(a, i) == [mNumberChannels |-> a.mNumberChannels, mData |-> i + 1]

\* <NonInterleaved<S> as Data>::from_input_proc_args: the whole array is
\* copied, with the declared count and the frame count beside it.
from_input_proc_args(frames, a) == [num_buffers |-> a.mNumberBuffers, frames |-> frames]

\* (mutant) the bus number is not forwarded
Args_bus_dropped(a) ==
    [data |-> from_input_proc_args(a.num_frames, a), time_stamp |-> a.time_stamp,
     bus_number |-> 0, num_frames |-> a.num_frames]

\* `Args { data, time_stamp: *in_time_stamp, flags, bus_number, num_frames }`
Args(a) ==
    [data |-> from_input_proc_args(a.num_frames, a), time_stamp |-> a.time_stamp,
     bus_number |-> a.bus_number, num_frames |-> a.num_frames]

\* (mutant) every slice is as long as the frame count
slice_len_frames(mNumberChannels, frames) == frames

\* `let len = mNumberChannels as usize * self.frames;` of Channels::next and
\* ChannelsMut::next
slice_len(mNumberChannels, frames) == mNumberChannels * frames

\* (mutant) the iterator runs over the whole array
channels_untaken(view) ==
    [index |-> 0, n |-> BufferListCapacity, frames |-> view.frames]

\* NonInterleaved::channels and channels_mut:
\* `self.buffers.iter().take(self.num_buffers)`, `frames: self.frames`
channels(view) == [index |-> 0, n |-> view.num_buffers, frames |-> view.frames]

\* The Vec<&mut [f32]> the boxed input_proc collects: one slice of
\* in_number_frames elements per declared buffer.
collect_channels(a) ==
    [i \in 1..a.mNumberBuffers |->
        [ptr |-> mBuffers(a, i - 1).mData, len |-> a.num_frames]]

\* Heap allocations of that `.collect()`: a Vec of no element allocates
\* nothing.
collect_allocations(a) == IF a.mNumberBuffers > 0 THEN 1 ELSE 0

\* The unit has a callback attached and is running: the state after
\* set_render_callback and start on a fresh handle.
Attached ==
    /\ api \in {"typed", "boxed"}
    /\ \E f \in UnitFormats : os_format = [s \in Scopes |-> f]
    /\ os_callback = [set |-> TRUE, refcon |-> 1, view |-> Untracked]
    /\ running = TRUE
    /\ initialized = TRUE
    /\ maybe_callback = 1
    /\ next_id = 2
    /\ drop_count = [c \in ClosureIds |-> 0]
    /\ released_by = [c \in ClosureIds |-> "none"]
    /\ pc = "idle"
    /\ call = [op |-> "set_render_callback", ptr |-> 1, os_set |-> TRUE, result |-> "Ok"]
    /\ lifecycle = "alive"
    /\ teardown_log = <<>>
    /\ process = "up"
    /\ rt_pc = "idle"
    /\ rt_ref = None
    /\ rt_deref = "none"
    /\ rt_last = NoOutcome
    /\ replacements = 0

IoInit ==
    /\ Attached
    /\ ConvIdle
    /\ IoIdle
    /\ AuxIdle

\* The OS may call the trampoline: the guard of RenderBegin, within the
\* invocations of one run.
Invocable ==
    /\ process = "up"
    /\ running
    /\ os_callback.set
    /\ Target(os_callback.refcon) = "live"
    /\ io_pc = "idle"
    /\ clock.count < MaxInvocations

\* The arguments of the invocation.  The time stamp is the OS's sample
\* time, which advances by the frames of every invocation.
Invoke(a) ==
    /\ io' = [num_frames |-> a.num_frames, bus_number |-> a.bus_number,
              time_stamp |-> clock.time + a.num_frames,
              mNumberBuffers |-> a.mNumberBuffers,
              mNumberChannels |-> a.mNumberChannels]
    /\ clock' = [time |-> clock.time + a.num_frames, count |-> clock.count + 1,
                 sent |-> Append(clock.sent,
                                 [num_frames |-> a.num_frames,
                                  time_stamp |-> clock.time + a.num_frames])]
    /\ chan' = NoChan

\* input_proc of render_callback.rs calls the boxed input_proc_fn, which
\* builds the Args on the stack and calls the closure with them.
InputProcTyped(a) ==
    /\ Invocable
    /\ api = "typed"
    /\ Invoke(a)
    /\ heap' = 0
    /\ LET args == Args(io')
       IN  cb_args' = [calls |-> 1, num_frames |-> args.num_frames,
                       bus_number |-> args.bus_number,
                       time_stamp |-> args.time_stamp,
                       data |-> args.data, slices |-> <<>>,
                       log |-> Append(cb_args.log,
                                      [num_frames |-> args.num_frames,
                                       time_stamp |-> args.time_stamp])]
    /\ io_pc' = "in_closure"
    /\ UNCHANGED <<unit_vars, conv_vars, aux_vars>>

\* input_proc of mod.rs collects one slice per declared buffer into a Vec
\* and calls the closure with the slices and the frame count.  `mBuffers[i]`
\* is bounds-checked: a count beyond the array panics before the call.
InputProcBoxed(a) ==
    /\ Invocable
    /\ api = "boxed"
    /\ Invoke(a)
    /\ heap' = collect_allocations(io')
    /\ IF a.mNumberBuffers > BufferListCapacity
       THEN /\ io_pc' = "panicked"
            /\ cb_args' = [cb_args EXCEPT !.calls = 0]
       ELSE /\ io_pc' = "in_closure"
            /\ cb_args' = [calls |-> 1, num_frames |-> io'.num_frames,
                           bus_number |-> NotPassed, time_stamp |-> NotPassed,
                           data |-> NoView, slices |-> collect_channels(io'),
                           log |-> Append(cb_args.log,
                                          [num_frames |-> io'.num_frames,
                                           time_stamp |-> NotPassed])]
    /\ UNCHANGED <<unit_vars, conv_vars, aux_vars>>

\* The closure calls args.data.channels() or channels_mut(): a new iterator.
\* The two, and the two iterators' next(), differ in mutability alone.
Channels ==
    /\ io_pc = "in_closure"
    /\ api = "typed"
    /\ chan.opened < MaxIterators
    /\ LET it == channels(cb_args.data)
       IN  chan' = [open |-> TRUE, index |-> it.index,
                    n |-> it.n, frames |-> it.frames,
                    opened |-> chan.opened + 1, made |-> 0, last |-> NoSlice,
                    ended |-> FALSE]
    /\ UNCHANGED <<unit_vars, conv_vars, aux_vars, io, io_pc, cb_args, heap, clock>>

\* The closure calls next() on its iterator.  iter::Take counts n down and
\* asks the slice iterator, which ends with the array; Channels::next maps
\* the buffer to a slice.
ChannelsNext ==
    /\ io_pc = "in_closure"
    /\ chan.open
    /\ IF chan.n = 0
       THEN chan' = [chan EXCEPT !.last = NoSlice, !.ended = TRUE]
       ELSE IF chan.index >= BufferListCapacity
       THEN chan' = [chan EXCEPT !.n = @ - 1, !.last = NoSlice, !.ended = TRUE]
       ELSE LET b == mBuffers(io, chan.index)
            IN  chan' = [chan EXCEPT
                           !.n = @ - 1,
                           !.index = @ + 1,
                           !.made = @ + 1,
                           !.last = [ptr |-> b.mData,
                                     len |-> slice_len(b.mNumberChannels, chan.frames)]]
    /\ UNCHANGED <<unit_vars, conv_vars, aux_vars, io, io_pc, cb_args, heap, clock>>

\* The closure returns, its iterators are gone, and the trampoline returns
\* its status to the OS.
ClosureReturn ==
    /\ io_pc = "in_closure"
    /\ io_pc' = "idle"
    /\ chan' = NoChan
    /\ UNCHANGED <<unit_vars, conv_vars, aux_vars, io, cb_args, heap, clock>>

IoNext ==
    \/ \E a \in IoInputs : InputProcTyped(a)
    \/ \E a \in IoInputs : InputProcBoxed(a)
    \/ Channels
    \/ ChannelsNext
    \/ ClosureReturn

IoSpec == IoInit /\ [][IoNext]_vars

\* ------------------------------------------------ OSStatus <-> Error

\* The arms of each family's from_os_status, in the order of the match, with
\* the status each constant stands for in the Core Audio headers.
AudioErrors ==
    << [name |-> "Unimplemented", code |-> -4],
       [name |-> "FileNotFound", code |-> -43],
       [name |-> "FilePermission", code |-> -54],
       [name |-> "TooManyFilesOpen", code |-> -42],
       [name |-> "BadFilePath", code |-> 561017960],
       [name |-> "Param", code |-> -50],
       [name |-> "MemFull", code |-> -108] >>

AudioCodecErrors ==
    << [name |-> "Unspecified", code |-> 2003329396],
       [name |-> "UnknownProperty", code |-> 2003332927],
       [name |-> "BadPropertySize", code |-> 561211770],
       [name |-> "IllegalOperation", code |-> 1852797029],
       [name |-> "UnsupportedFormat", code |-> 560226676],
       [name |-> "State", code |-> 561214580],
       [name |-> "NotEnoughBufferSpace", code |-> 560100710],
       [name |-> "BadData", code |-> 1650549857] >>

AudioFormatErrors ==
    << [name |-> "Unspecified", code |-> 2003329396],
       [name |-> "UnsupportedProperty", code |-> 1886547824],
       [name |-> "BadPropertySize", code |-> 561211770],
       [name |-> "BadSpecifierSize", code |-> 561213539],
       [name |-> "UnsupportedDataFormat", code |-> 1718449215],
       [name |-> "UnknownFormat", code |-> 560360820] >>

AudioUnitErrors ==
    << [name |-> "InvalidProperty", code |-> -10879],
       [name |-> "InvalidParameter", code |-> -10878],
       [name |-> "InvalidElement", code |-> -10877],
       [name |-> "NoConnection", code |-> kAudioUnitErr_NoConnection],
       [name |-> "FailedInitialization", code |-> -10875],
       [name |-> "TooManyFramesToProcess", code |-> -10874],
       [name |-> "InvalidFile", code |-> -10871],
       [name |-> "FormatNotSupported", code |-> -10868],
       [name |-> "Uninitialized", code |-> -10867],
       [name |-> "InvalidScope", code |-> -10866],
       [name |-> "PropertyNotWritable", code |-> -10865],
       [name |-> "CannotDoInCurrentContext", code |-> -10863],
       [name |-> "InvalidPropertyValue", code |-> -10851],
       [name |-> "PropertyNotInUse", code |-> -10850],
       [name |-> "Initialized", code |-> -10849],
       [name |-> "InvalidOfflineRender", code |-> -10848],
       [name |-> "Unauthorized", code |-> -10847] >>

Families == <<"Audio", "AudioCodec", "AudioFormat", "AudioUnit">>

ArmsOf(family) ==
    CASE family = "Audio" -> AudioErrors
      [] family = "AudioCodec" -> AudioCodecErrors
      [] family = "AudioFormat" -> AudioFormatErrors
      [] family = "AudioUnit" -> AudioUnitErrors

\* The match of audio, audio_codec and audio_format begins with
\* `0 => Ok(())`; the match of audio_unit has no such arm.
HasZeroArm(family) == family # "AudioUnit"

Ok == [ok |-> TRUE, err |-> NoError]
Err(e) == [ok |-> FALSE, err |-> e]

\* <family>::Error::from_os_status: the first arm whose constant equals the
\* status, or else Unknown, whose discriminant follows the last one's.
family_from_os_status(family, os_status) ==
    LET arms == ArmsOf(family)
        hits == {i \in DOMAIN arms : arms[i].code = os_status}
    IN  IF HasZeroArm(family) /\ os_status = 0
        THEN Ok
        ELSE IF hits # {}
        THEN LET i == CHOOSE i \in hits : \A j \in hits : i <= j
             IN  Err([variant |-> family, inner |-> arms[i].name, code |-> arms[i].code])
        ELSE Err([variant |-> family, inner |-> "Unknown",
                  code |-> arms[Len(arms)].code + 1])

\* The families tried in turn by Error::from_os_status, from the k-th on:
\* Ok returns Ok, Unknown goes on to the next, any other error is wrapped.
RECURSIVE try_families(_, _)
try_families(k, os_status) ==
    IF k > Len(Families)
    THEN Err([variant |-> "Unknown", inner |-> "none", code |-> os_status])
    ELSE LET r == family_from_os_status(Families[k], os_status)
         IN  IF r.ok THEN Ok
             ELSE IF r.err.inner = "Unknown" THEN try_families(k + 1, os_status)
             ELSE r

\* Error::from_os_status
from_os_status(os_status) ==
    IF os_status = 0 THEN Ok
    ELSE IF os_status = kAudioServicesSystemSoundUnspecifiedError
    THEN Err(ErrorOf("Unspecified"))
    ELSE IF os_status = kAudioServicesSystemSoundClientTimedOutError
    THEN Err(ErrorOf("SystemSoundClientMessageTimedOut"))
    ELSE try_families(1, os_status)

ArmCodes(family) == {ArmsOf(family)[i].code : i \in DOMAIN ArmsOf(family)}

\* The statuses given to the conversions: success, every recognised code,
\* and some no family knows.
Statuses ==
    {0, 1, -1, 12345, kAudioServicesSystemSoundUnspecifiedError,
     kAudioServicesSystemSoundClientTimedOutError}
      \cup UNION {ArmCodes(Families[k]) : k \in DOMAIN Families}

FromOsStatusFns == {"Error"} \cup {Families[k] : k \in DOMAIN Families}

\* A from_os_status is called: the top-level one, or a family's.
FromOsStatus(fn, os_status) ==
    /\ LET r == IF fn = "Error" THEN from_os_status(os_status)
                ELSE family_from_os_status(fn, os_status)
       IN  err_call' = [fn |-> fn, os_status |-> os_status, ok |-> r.ok, err |-> r.err]
    /\ err_back' = [done |-> FALSE, os_status |-> 0]
    /\ UNCHANGED <<unit_vars, conv_vars, io_vars, pcm_call, flag_vars, rate_vars>>

\* as_os_status is called on the Error that Error::from_os_status returned.
AsOsStatus ==
    /\ err_call.fn = "Error"
    /\ ~err_call.ok
    /\ ~err_back.done
    /\ err_back' = [done |-> TRUE, os_status |-> as_os_status(err_call.err)]
    /\ UNCHANGED <<unit_vars, conv_vars, io_vars, err_call, pcm_call, flag_vars, rate_vars>>

ErrNext ==
    \/ \E fn \in FromOsStatusFns, os_status \in Statuses : FromOsStatus(fn, os_status)
    \/ AsOsStatus

ErrSpec == Init /\ [][ErrNext]_vars

\* ------------------------------------- AudioFormat <-> format id and flag

kAudioFormat60958AC3 == 1667326771
kAudioFormatAppleIMA4 == 1768775988

\* Option<u32>, Option<LinearPCMFlag>, Option<AudioFormat>
NoneOf == [some |-> FALSE, value |-> 0]
Some(v) == [some |-> TRUE, value |-> v]

\* enum LinearPCMFlag and enum StandardFlag: the variants' discriminants
LinearPCMFlags == {1, 2, 4, 8, 16, 32, 64, 7, 8064}
StandardFlags == {1, 2, 4, 8, 16, 32, 64}

\* LinearPCMFlag::from_u32: a variant is named by its discriminant
LinearPCMFlag_from_u32(i) == IF i \in LinearPCMFlags THEN Some(i) ELSE NoneOf

\* StandardFlag::from_u32
StandardFlag_from_u32(i) == IF i \in StandardFlags THEN Some(i) ELSE NoneOf

NoAudioFormat == [variant |-> "none", flag |-> NoneOf]

\* AudioFormat::from_format_and_flag of audio_format.rs, on four of its
\* format ids: two with a flag, two without.
AudioFormat_from_format_and_flag(format, flag) ==
    IF format = kAudioFormatLinearPCM /\ flag.some
    THEN Some([variant |-> "LinearPCM", flag |-> LinearPCMFlag_from_u32(flag.value)])
    ELSE IF format = kAudioFormatAC3
    THEN Some([variant |-> "AC3", flag |-> NoneOf])
    ELSE IF format = kAudioFormat60958AC3 /\ flag.some
    THEN Some([variant |-> "F60958AC3", flag |-> StandardFlag_from_u32(flag.value)])
    ELSE IF format = kAudioFormatAppleIMA4
    THEN Some([variant |-> "AppleIMA4", flag |-> NoneOf])
    ELSE [some |-> FALSE, value |-> NoAudioFormat]

\* AudioFormat::to_format_and_flag: `flag.map(|flag| flag as u32)`
AudioFormat_to_format_and_flag(audio_format) ==
    CASE audio_format.variant = "LinearPCM" ->
             [format |-> kAudioFormatLinearPCM, flag |-> audio_format.flag]
      [] audio_format.variant = "AC3" ->
             [format |-> kAudioFormatAC3, flag |-> NoneOf]
      [] audio_format.variant = "F60958AC3" ->
             [format |-> kAudioFormat60958AC3, flag |-> audio_format.flag]
      [] audio_format.variant = "AppleIMA4" ->
             [format |-> kAudioFormatAppleIMA4, flag |-> NoneOf]

\* The format ids and flag words given to from_format_and_flag: every word
\* of the seven single-bit flags, the sample-fraction mask, and no flag.
FormatIds ==
    {kAudioFormatLinearPCM, kAudioFormatAC3, kAudioFormat60958AC3,
     kAudioFormatAppleIMA4, 12345}
FlagWords == {NoneOf} \cup {Some(w) : w \in (0..127) \cup {8064}}

FromFormatAndFlag(format, flag) ==
    /\ pcm_call' = [format |-> format, flag |-> flag,
                    decoded |-> AudioFormat_from_format_and_flag(format, flag),
                    encoded |-> [done |-> FALSE, format |-> 0, flag |-> NoneOf]]
    /\ UNCHANGED <<unit_vars, conv_vars, io_vars, err_vars, flag_vars, rate_vars>>

\* to_format_and_flag is called on the AudioFormat just decoded.
ToFormatAndFlag ==
    /\ pcm_call.decoded.some
    /\ ~pcm_call.encoded.done
    /\ LET r == AudioFormat_to_format_and_flag(pcm_call.decoded.value)
       IN  pcm_call' = [pcm_call EXCEPT
                          !.encoded = [done |-> TRUE, format |-> r.format,
                                       flag |-> r.flag]]
    /\ UNCHANGED <<unit_vars, conv_vars, io_vars, err_vars, flag_vars, rate_vars>>

PcmNext ==
    \/ \E format \in FormatIds, flag \in FlagWords : FromFormatAndFlag(format, flag)
    \/ ToFormatAndFlag

PcmSpec == Init /\ [][PcmNext]_vars

\* ---------------------------------------------- action_flags::Handle

PRE_RENDER == 4
POST_RENDER == 8
OUTPUT_IS_SILENCE == 16
OFFLINE_PREFLIGHT == 32
OFFLINE_RENDER == 64
OFFLINE_COMPLETE == 128
POST_RENDER_ERROR == 256
DO_NOT_CHECK_RENDER_ARGS == 512

\* A u32 word is the set of the bits set in it.  ActionFlags::all(): the
\* eight bits that bitflags! declares.
AllActionFlags ==
    {PRE_RENDER, POST_RENDER, OUTPUT_IS_SILENCE, OFFLINE_PREFLIGHT, OFFLINE_RENDER,
     OFFLINE_COMPLETE, POST_RENDER_ERROR, DO_NOT_CHECK_RENDER_ARGS}

\* ActionFlags::from_bits_truncate: bits of no declared flag are dropped
from_bits_truncate(word) == word \cap AllActionFlags

\* Handle::get
Handle_get(word) == from_bits_truncate(word)

\* Handle::set writes flags.bits() over the whole word
Handle_set(word, flags) == flags

\* Handle::insert, Handle::remove, Handle::toggle: the word they leave
Handle_insert(word, other) == Handle_set(word, Handle_get(word) \cup other)
Handle_remove(word, other) == Handle_set(word, Handle_get(word) \ other)
Handle_toggle(word, other) ==
    Handle_set(word, (Handle_get(word) \ other) \cup (other \ Handle_get(word)))

\* The words the audio unit passes to a render callback: flags it declares
\* and two bits that ActionFlags does not declare.
UndeclaredBits == {1, 1024}
OsWords == SUBSET ({PRE_RENDER, POST_RENDER, OUTPUT_IS_SILENCE} \cup UndeclaredBits)

\* The flags a callback passes to insert, remove and toggle
CallbackFlags == SUBSET {PRE_RENDER, OUTPUT_IS_SILENCE, POST_RENDER_ERROR}

\* Handle::from_ptr: the audio unit hands the callback a pointer to its word.
FromPtr(word) ==
    /\ flag_word' = word
    /\ flag_op' = [op |-> "from_ptr", other |-> {}, before |-> word]
    /\ UNCHANGED <<unit_vars, conv_vars, io_vars, err_vars, pcm_call, rate_vars>>

HandleOp(op, other, word) ==
    /\ flag_op.op # "none"
    /\ flag_word' = word
    /\ flag_op' = [op |-> op, other |-> other, before |-> flag_word]
    /\ UNCHANGED <<unit_vars, conv_vars, io_vars, err_vars, pcm_call, rate_vars>>

Insert(other) == HandleOp("insert", other, Handle_insert(flag_word, other))
Remove(other) == HandleOp("remove", other, Handle_remove(flag_word, other))
Toggle(other) == HandleOp("toggle", other, Handle_toggle(flag_word, other))

FlagsNext ==
    \/ \E word \in OsWords : FromPtr(word)
    \/ \E other \in CallbackFlags : Insert(other)
    \/ \E other \in CallbackFlags : Remove(other)
    \/ \E other \in CallbackFlags : Toggle(other)

FlagsSpec == Init /\ [][FlagsNext]_vars

\* ------------------------------ RateListener and set_device_sample_rate

MaxNotifications == 3

\* A sample rate (f64) in half hertz, so that 88201 is 44100.5 Hz.
HalfHz == 2
Rates == {88200, 88201, 96000}

\* `rate as u32` and `rate as usize`: the fraction is cut off
as_u32(rate) == rate \div HalfHz

\* An AudioValueRange
Range(lo, hi) == [mMinimum |-> lo, mMaximum |-> hi]

\* The lists of available ranges a device reports
RangeLists ==
    { <<>>,
      << Range(88200, 88200) >>,
      << Range(16000, 192000), Range(96000, 96000) >>,
      << Range(88200, 88200), Range(96000, 96000) >> }

\* The statuses of the AudioObject calls: success and one error
OsStatuses == {0, -50}

\* What a read gives of an immutable binding that the OS wrote through a
\* pointer cast to *mut: the written value or the initializer.
ReadsOf(written, initial) == {written, initial}

\* VecDeque::push_back
push_back(queue, rate) == Append(queue, rate)

\* Mutex::lock, where `owner` is the thread that holds it
lock_free_always(owner) == TRUE
lock_free(owner) == owner = "none"

\* `ranges.iter().position(..)` of set_device_sample_rate: whether a range
\* has minimum = maximum = the requested rate, as integers
has_position(ranges, new_rate) ==
    \E i \in DOMAIN ranges :
        /\ as_u32(ranges[i].mMinimum) = as_u32(new_rate)
        /\ as_u32(ranges[i].mMaximum) = as_u32(new_rate)

\* Duration::from_secs(2): `timer.elapsed()` is counted in whole seconds
TwoSeconds == 2

\* RateListener::new
RateListener_new(sync_channel) ==
    [state |-> "live", sync_channel |-> sync_channel, rate_listener |-> FALSE,
     queue |-> <<>>, lock |-> "none"]

\* RateListener::register on `l`, given the status of
\* AudioObjectAddPropertyListener: the result, the listener and whether the
\* OS holds the registration afterwards.
register(l, registered, status) ==
    IF from_os_status(status).ok
    THEN [result |-> Ok, listener |-> [l EXCEPT !.rate_listener = TRUE],
          registered |-> TRUE, os_calls |-> 1]
    ELSE [result |-> from_os_status(status), listener |-> l,
          registered |-> registered, os_calls |-> 1]

\* RateListener::unregister, given the status of
\* AudioObjectRemovePropertyListener
unregister(l, registered, status) ==
    IF l.rate_listener
    THEN IF from_os_status(status).ok
         THEN [result |-> Ok, listener |-> [l EXCEPT !.rate_listener = FALSE],
               registered |-> FALSE, os_calls |-> 1]
         ELSE [result |-> from_os_status(status), listener |-> l,
               registered |-> registered, os_calls |-> 1]
    ELSE [result |-> Ok, listener |-> l, registered |-> registered, os_calls |-> 0]

\* Drop for RateListener: `let _ = self.unregister();`
drop(l, registered, status) ==
    LET u == unregister(l, registered, status)
    IN  [listener |-> [u.listener EXCEPT !.state = "dropped"],
         registered |-> u.registered]

\* ---- the device

\* The nominal sample rate of the device changes, to a rate written to it
\* or to another one, and the OS owes its listener a notification.
DeviceRateChange(rate) ==
    /\ device.notified + device.pending < MaxNotifications
    /\ rate # device.rate
    /\ device' = [device EXCEPT !.rate = rate,
                                !.pending = IF device.registered THEN @ + 1 ELSE @]
    /\ UNCHANGED <<listener, os_thread, poll, received, receiver, set_call>>
    /\ UNCHANGED <<unit_vars, conv_vars, io_vars, err_vars, pcm_call, flag_vars>>

\* ---- the OS thread: rate_listener, the callback of register

\* The OS calls rate_listener, which reads the rate into `rate`.  A
\* listener already dropped is reached through a dangling pointer.
ListenerCalled(rate) ==
    /\ os_thread.pc = "idle"
    /\ device.registered
    /\ device.pending > 0
    /\ rate \in ReadsOf(device.rate, 0)
    /\ device' = [device EXCEPT !.pending = @ - 1, !.notified = @ + 1]
    /\ os_thread' = [pc |-> IF listener.state = "live" THEN "called" ELSE "dangling",
                     rate |-> rate, seen |-> <<>>]
    /\ received' = IF listener.state = "live" /\ ~listener.sync_channel
                   THEN Append(received, rate)
                   ELSE received
    /\ UNCHANGED <<listener, poll, receiver, set_call>>
    /\ UNCHANGED <<unit_vars, conv_vars, io_vars, err_vars, pcm_call, flag_vars>>

\* `sender.send(rate).unwrap()`
ListenerSend ==
    /\ os_thread.pc = "called"
    /\ listener.sync_channel
    /\ IF listener.state # "live"
       THEN os_thread' = [os_thread EXCEPT !.pc = "dangling"] /\ UNCHANGED receiver
       ELSE IF receiver.open
       THEN /\ receiver' = [receiver EXCEPT !.q = Append(@, os_thread.rate)]
            /\ os_thread' = [os_thread EXCEPT !.pc = "idle"]
       ELSE os_thread' = [os_thread EXCEPT !.pc = "panicked"] /\ UNCHANGED receiver
    /\ UNCHANGED <<device, listener, poll, received, set_call>>
    /\ UNCHANGED <<unit_vars, conv_vars, io_vars, err_vars, pcm_call, flag_vars>>

\* `self_ptr.queue.lock().unwrap()`
ListenerLock ==
    /\ os_thread.pc = "called"
    /\ ~listener.sync_channel
    /\ IF listener.state # "live"
       THEN os_thread' = [os_thread EXCEPT !.pc = "dangling"] /\ UNCHANGED listener
       ELSE /\ lock_free(listener.lock)
            /\ listener' = [listener EXCEPT !.lock = "os"]
            /\ os_thread' = [os_thread EXCEPT !.pc = "locked", !.seen = listener.queue]
    /\ UNCHANGED <<device, poll, received, receiver, set_call>>
    /\ UNCHANGED <<unit_vars, conv_vars, io_vars, err_vars, pcm_call, flag_vars>>

\* `queue.push_back(rate)`, and the guard is released
ListenerPush ==
    /\ os_thread.pc = "locked"
    /\ IF listener.state # "live"
       THEN /\ os_thread' = [os_thread EXCEPT !.pc = "dangling"]
            /\ UNCHANGED listener
       ELSE /\ listener' = [listener EXCEPT !.queue = push_back(os_thread.seen, os_thread.rate),
                                            !.lock = "none"]
            /\ os_thread' = [os_thread EXCEPT !.pc = "idle", !.seen = <<>>]
    /\ UNCHANGED <<device, poll, received, receiver, set_call>>
    /\ UNCHANGED <<unit_vars, conv_vars, io_vars, err_vars, pcm_call, flag_vars>>

\* ---- the user's thread: a RateListener without a Sender

\* The notifications that arrived since the last drain and whose callback
\* has pushed its rate: all but the one of a callback not yet through.
Queued ==
    IF os_thread.pc \in {"called", "locked"}
    THEN SubSeq(received, 1, Len(received) - 1)
    ELSE received

Polled(fn, l) ==
    [pc |-> "idle", fn |-> fn, seen |-> <<>>, result |-> <<>>, nbr |-> 0,
     history |-> <<>>,
     left |-> l.queue, was_set |-> listener.rate_listener, os_calls |-> 0,
     status |-> Ok]

New ==
    /\ listener.state = "none"
    /\ set_call.pc = "idle"
    /\ listener' = RateListener_new(FALSE)
    /\ poll' = Polled("new", listener')
    /\ UNCHANGED <<device, os_thread, received, receiver, set_call>>
    /\ UNCHANGED <<unit_vars, conv_vars, io_vars, err_vars, pcm_call, flag_vars>>

UserListener ==
    /\ listener.state = "live"
    /\ ~listener.sync_channel
    /\ poll.pc = "idle"

Register(status) ==
    /\ UserListener
    /\ LET r == register(listener, device.registered, status)
       IN  /\ listener' = r.listener
           /\ device' = [device EXCEPT !.registered = r.registered]
           /\ poll' = [Polled("register", r.listener) EXCEPT
                         !.os_calls = r.os_calls, !.status = r.result]
    /\ UNCHANGED <<os_thread, received, receiver, set_call>>
    /\ UNCHANGED <<unit_vars, conv_vars, io_vars, err_vars, pcm_call, flag_vars>>

Unregister(status) ==
    /\ UserListener
    /\ LET r == unregister(listener, device.registered, status)
       IN  /\ listener' = r.listener
           /\ device' = [device EXCEPT !.registered = r.registered]
           /\ poll' = [Polled("unregister", r.listener) EXCEPT
                         !.os_calls = r.os_calls, !.status = r.result]
    /\ UNCHANGED <<os_thread, received, receiver, set_call>>
    /\ UNCHANGED <<unit_vars, conv_vars, io_vars, err_vars, pcm_call, flag_vars>>

DropListener(status) ==
    /\ UserListener
    /\ LET r == drop(listener, device.registered, status)
       IN  /\ listener' = r.listener
           /\ device' = [device EXCEPT !.registered = r.registered]
           /\ poll' = Polled("drop", r.listener)
    /\ UNCHANGED <<os_thread, received, receiver, set_call>>
    /\ UNCHANGED <<unit_vars, conv_vars, io_vars, err_vars, pcm_call, flag_vars>>

\* get_nbr_values, copy_values and drain_values take the lock
PollLock(fn) ==
    /\ UserListener
    /\ lock_free(listener.lock)
    /\ listener' = [listener EXCEPT !.lock = "user"]
    /\ poll' = [Polled(fn, listener) EXCEPT !.pc = "locked", !.seen = listener.queue]
    /\ UNCHANGED <<device, os_thread, received, receiver, set_call>>
    /\ UNCHANGED <<unit_vars, conv_vars, io_vars, err_vars, pcm_call, flag_vars>>

\* .. and return what they found: `len()`, `iter().copied().collect()`
\* or `drain(..).collect()`, which empties the queue.
PollReturn ==
    /\ poll.pc = "locked"
    /\ listener' = [listener EXCEPT
                      !.queue = IF poll.fn = "drain_values" THEN <<>> ELSE @,
                      !.lock = "none"]
    /\ poll' = [poll EXCEPT !.pc = "idle", !.result = poll.seen, !.seen = <<>>,
                            !.nbr = Len(poll.seen),
                            !.history = Queued, !.left = listener'.queue]
    /\ received' = IF poll.fn = "drain_values"
                   THEN SubSeq(received, Len(Queued) + 1, Len(received))
                   ELSE received
    /\ UNCHANGED <<device, os_thread, receiver, set_call>>
    /\ UNCHANGED <<unit_vars, conv_vars, io_vars, err_vars, pcm_call, flag_vars>>

\* ---- the user's thread: set_device_sample_rate

\* A return of set_device_sample_rate: `l` is dropped if it was made, and
\* so is the Receiver.
Return(this_call, result, l, status) ==
    /\ set_call' = [this_call EXCEPT !.pc = "returned", !.result = result]
    /\ receiver' = [receiver EXCEPT !.open = FALSE]
    /\ IF l.state = "live"
       THEN LET d == drop(l, device.registered, status)
            IN  /\ listener' = d.listener
                /\ device' = [device EXCEPT !.registered = d.registered]
       ELSE UNCHANGED <<listener, device>>

\* The current rate is read and compared with the requested one.
GetSampleRate(new_rate, status, sample_rate) ==
    /\ set_call.pc = "idle"
    /\ listener.state = "none"
    /\ sample_rate \in ReadsOf(device.rate, 0)
    /\ LET this_call == [set_call EXCEPT !.new_rate = new_rate,
                                          !.already = as_u32(device.rate) = as_u32(new_rate)]
       IN  IF ~from_os_status(status).ok
           THEN Return(this_call, from_os_status(status), listener, 0)
           ELSE IF as_u32(sample_rate) # as_u32(new_rate)
           THEN /\ set_call' = [this_call EXCEPT !.pc = "ranges"]
                /\ UNCHANGED <<device, listener, receiver>>
           ELSE Return(this_call, Ok, listener, 0)
    /\ UNCHANGED <<os_thread, poll, received>>
    /\ UNCHANGED <<unit_vars, conv_vars, io_vars, err_vars, pcm_call, flag_vars>>

\* The available ranges are read, `n_ranges` of them, and searched.
GetRanges(available, size_status, status, n_ranges) ==
    /\ set_call.pc = "ranges"
    /\ n_ranges \in ReadsOf(Len(available), 0)
    /\ LET this_call == [set_call EXCEPT
                           !.available = has_position(available, set_call.new_rate)]
           ranges == SubSeq(available, 1, n_ranges)
       IN  IF ~from_os_status(size_status).ok
           THEN Return(this_call, from_os_status(size_status), listener, 0)
           ELSE IF ~from_os_status(status).ok
           THEN Return(this_call, from_os_status(status), listener, 0)
           ELSE IF ~has_position(ranges, set_call.new_rate)
           THEN Return(this_call, Err(ErrorOf("UnsupportedSampleRate")), listener, 0)
           ELSE /\ set_call' = [this_call EXCEPT !.pc = "register"]
                /\ UNCHANGED <<device, listener, receiver>>
    /\ UNCHANGED <<os_thread, poll, received>>
    /\ UNCHANGED <<unit_vars, conv_vars, io_vars, err_vars, pcm_call, flag_vars>>

\* `RateListener::new(device_id, Some(sender))` and `listener.register()?`
RegisterListener(status) ==
    /\ set_call.pc = "register"
    /\ LET r == register(RateListener_new(TRUE), device.registered, status)
       IN  IF r.result.ok
           THEN /\ listener' = r.listener
                /\ device' = [device EXCEPT !.registered = r.registered]
                /\ receiver' = [open |-> TRUE, q |-> <<>>]
                /\ set_call' = [set_call EXCEPT !.pc = "set", !.registered = TRUE]
           ELSE Return(set_call, r.result, r.listener, 0)
    /\ UNCHANGED <<os_thread, poll, received>>
    /\ UNCHANGED <<unit_vars, conv_vars, io_vars, err_vars, pcm_call, flag_vars>>

\* AudioObjectSetPropertyData with the range found
SetPropertyData(status, drop_status) ==
    /\ set_call.pc = "set"
    /\ IF from_os_status(status).ok
       THEN /\ set_call' = [set_call EXCEPT !.pc = "wait", !.wrote = TRUE, !.elapsed = 0]
            /\ device' = [device EXCEPT !.writes = 1]
            /\ UNCHANGED <<listener, receiver>>
       ELSE Return(set_call, from_os_status(status), listener, drop_status)
    /\ UNCHANGED <<os_thread, poll, received>>
    /\ UNCHANGED <<unit_vars, conv_vars, io_vars, err_vars, pcm_call, flag_vars>>

\* One turn of the loop in which recv_timeout yields a reported rate, and
\* `waited` more seconds, 0 or 1, are over at the end of it
Reported(waited, drop_status) ==
    /\ set_call.pc = "wait"
    /\ receiver.q # <<>>
    /\ LET reported_rate == Head(receiver.q)
           this_call == [set_call EXCEPT !.elapsed = @ + waited]
       IN  IF as_u32(set_call.new_rate) = as_u32(reported_rate)
           THEN Return([this_call EXCEPT !.reported = TRUE], Ok, listener, drop_status)
           ELSE IF this_call.elapsed > TwoSeconds
           THEN Return(this_call, Err(ErrorOf("UnsupportedSampleRate")), listener, drop_status)
           ELSE /\ set_call' = this_call
                /\ receiver' = [receiver EXCEPT !.q = Tail(@)]
                /\ UNCHANGED <<listener, device>>
    /\ UNCHANGED <<os_thread, poll, received>>
    /\ UNCHANGED <<unit_vars, conv_vars, io_vars, err_vars, pcm_call, flag_vars>>

\* One turn of the loop in which recv_timeout times out
TimedOut(waited, drop_status) ==
    /\ set_call.pc = "wait"
    /\ receiver.q = <<>>
    /\ LET this_call == [set_call EXCEPT !.elapsed = @ + waited]
       IN  IF this_call.elapsed > TwoSeconds
           THEN Return(this_call, Err(ErrorOf("UnsupportedSampleRate")), listener, drop_status)
           ELSE /\ set_call' = this_call
                /\ UNCHANGED <<listener, device, receiver>>
    /\ UNCHANGED <<os_thread, poll, received>>
    /\ UNCHANGED <<unit_vars, conv_vars, io_vars, err_vars, pcm_call, flag_vars>>

RateNext ==
    \/ \E rate \in Rates : DeviceRateChange(rate)
    \/ \E rate \in Rates \cup {0} : ListenerCalled(rate)
    \/ ListenerSend
    \/ ListenerLock
    \/ ListenerPush
    \/ New
    \/ \E status \in OsStatuses : Register(status)
    \/ \E status \in OsStatuses : Unregister(status)
    \/ \E status \in OsStatuses : DropListener(status)
    \/ \E fn \in {"get_nbr_values", "copy_values", "drain_values"} : PollLock(fn)
    \/ PollReturn
    \/ \E new_rate \in Rates, status \in OsStatuses, sample_rate \in Rates \cup {0} :
           GetSampleRate(new_rate, status, sample_rate)
    \/ \E available \in RangeLists, size_status \in OsStatuses, status \in OsStatuses,
          n_ranges \in 0..2 :
           GetRanges(available, size_status, status, n_ranges)
    \/ \E status \in OsStatuses : RegisterListener(status)
    \/ \E status \in OsStatuses, drop_status \in OsStatuses :
           SetPropertyData(status, drop_status)
    \/ \E waited \in {0, 1}, drop_status \in OsStatuses : Reported(waited, drop_status)
    \/ \E waited \in {0, 1}, drop_status \in OsStatuses : TimedOut(waited, drop_status)

\* The device functions take no AudioUnit: the unit is one fresh unit.
RateInit ==
    /\ Init
    /\ api = "typed"
    /\ \A s \in Scopes : os_format[s].sample_format = "I16"

RateSpec == RateInit /\ [][RateNext]_vars

\* ------------------------------------------------------------------ claims

Boxed == 1..(next_id - 1)
Dropped == {c \in ClosureIds : drop_count[c] > 0}

C2_ReplacementDropsPreviousOnce ==
    /\ \A c \in ClosureIds : drop_count[c] <= 1
    /\ Cardinality({c \in Dropped : released_by[c] = "replace"}) = replacements
    /\ (\A c \in ClosureIds : released_by[c] \in {"none", "replace"})
          => Cardinality(Dropped) = replacements
    /\ maybe_callback # None => drop_count[maybe_callback] = 0
    /\ (pc = "idle" /\ call.op = "set_render_callback" /\ call.result = "Ok"
          /\ call.ptr # None)
          => maybe_callback = call.ptr /\ drop_count[call.ptr] = 0

C2_Witness ==
    /\ replacements >= 2
    /\ Cardinality(Dropped) = replacements
    /\ maybe_callback # None
    /\ drop_count[maybe_callback] = 0

\* C3: while set_render_callback replaces a callback, the pointer registered
\* with the OS never refers to a closure the replacement released, and the
\* render thread is never inside a closure the replacement has released.
C3_ReplacementNeverFreesUnderRender ==
    /\ (os_callback.set /\ os_callback.refcon # None)
          => released_by[os_callback.refcon] # "replace"
    /\ (rt_pc = "in_closure" /\ rt_ref # None)
          => released_by[rt_ref] # "replace"

\* C4: once a detach has released a closure (free_render_callback, or
\* set_render_callback(None)), the OS no longer holds the trampoline with
\* that pointer, and no invocation begun afterwards dereferences the
\* released closure or a null pointer.
C4_DetachUnregisters ==
    /\ \A c \in ClosureIds :
          released_by[c] \in {"free", "detach"}
             => ~(os_callback.set /\ os_callback.refcon = c)
    /\ rt_deref # "null"
    /\ (rt_deref = "freed" /\ rt_ref # None)
          => released_by[rt_ref] \notin {"free", "detach"}

\* C5: when the teardown has completed, every closure that was boxed by a
\* set_render_callback call has been released.
C5_NoClosureLeaked ==
    lifecycle = "dropped" => \A c \in Boxed : drop_count[c] >= 1

\* C6, as claimed: in the teardown the callback is released before the unit
\* is stopped and before it is uninitialized.
C6_ReleaseBeforeStop ==
    \A i \in DOMAIN teardown_log :
        teardown_log[i] \in {"stop", "uninitialize"}
           => \E j \in 1..(i - 1) : teardown_log[j] = "free_render_callback"

\* C6, amended: in the teardown the unit is stopped and uninitialized first
\* and only afterwards is the attached callback released; a closure released
\* by the teardown is released from a unit that is neither running nor
\* initialized; no step of the teardown runs twice.
C6_StopBeforeRelease ==
    /\ \A i \in DOMAIN teardown_log :
          teardown_log[i] = "free_render_callback"
             => /\ \E j \in 1..(i - 1) : teardown_log[j] = "stop"
                /\ \E j \in 1..(i - 1) : teardown_log[j] = "uninitialize"
    /\ \A c \in ClosureIds :
          released_by[c] = "drop" => ~running /\ ~initialized
    /\ \A i, j \in DOMAIN teardown_log :
          teardown_log[i] = teardown_log[j] => i = j
    /\ lifecycle = "dropped"
          => teardown_log = <<"stop", "uninitialize", "free_render_callback">>

C6_Witness ==
    /\ lifecycle = "dropped"
    /\ \E c \in ClosureIds : released_by[c] = "drop" /\ drop_count[c] = 1

\* C7: the teardown never panics, and when it is over the handle holds no
\* closure (the attached one was released), also when stop or uninitialize
\* returned an error.
C7_TeardownNeverFaults ==
    /\ lifecycle # "panicked"
    /\ pc \in {"done", "unwinding"} => maybe_callback = None

\* C8: free_render_callback on a handle that holds no callback changes
\* nothing, and every free (free_render_callback, or the one of the
\* teardown) leaves the handle empty and drops only the closure the handle
\* held, so that no closure is ever dropped twice.
C8_FreeIsIdempotent ==
    [][ /\ (FreeRenderCallback /\ maybe_callback = None)
            => UNCHANGED <<handle_vars, os_callback, pc>>
        /\ (FreeRenderCallback \/ DropFree)
            => /\ maybe_callback' = None
               /\ \A c \in ClosureIds :
                     /\ drop_count'[c] <= 1
                     /\ c # maybe_callback => drop_count'[c] = drop_count[c] ]_vars

C8_Witness ==
    /\ call.op = "free_render_callback"
    /\ call.ptr = None
    /\ maybe_callback = None
    /\ \E c \in ClosureIds : released_by[c] = "free" /\ drop_count[c] = 1

\* C9: a panic raised in the trampoline or in the closure does not leave
\* the trampoline: the invocation returns an error status to the OS.
C9_PanicCaughtAtTrampoline ==
    /\ rt_last.kind \notin {"unwound", "aborted"}
    /\ rt_last.result = "Panic" => rt_last.kind = "returned" /\ rt_last.status # 0

C11_NonInterleavedNeedsNonInterleavedFormat ==
    [][ \A s \in SampleFormats :
          SetRenderCallbackTyped(NonInterleaved(s))
            => /\ (/\ Contains(stream_format.flags, IS_NON_INTERLEAVED)
                   /\ stream_format.sample_format = s)
                     => call'.result \in {"pending", "OSError"}
               /\ ~Contains(stream_format.flags, IS_NON_INTERLEAVED)
                     => /\ call'.result \in {"FormatMismatch", "OSError"}
                        /\ ~call'.os_set ]_vars

\* C12: an attach of a NonInterleaved<S> callback gets past the format
\* check (and on to the property-set call) only when the stream format's
\* sample format is S.
C12_ViewNeedsExactSampleFormat ==
    [][ \A s \in SampleFormats :
          (SetRenderCallbackTyped(NonInterleaved(s)) /\ call'.os_set)
            => stream_format.sample_format = s ]_vars

\* A linear PCM, packed descriptor of one of the four sample types,
\* interleaved or not, with 1..MaxChannels channels and the byte and bit
\* counts that go with them.
SupportedAsbd(x) ==
    \E s \in SampleFormats, non_interleaved \in BOOLEAN :
        /\ x.mFormatID = kAudioFormatLinearPCM
        /\ x.mFormatFlags = (IF s = "F32" THEN IS_FLOAT ELSE IS_SIGNED_INTEGER)
                              + IS_PACKED
                              + (IF non_interleaved THEN IS_NON_INTERLEAVED ELSE 0)
        /\ x.mChannelsPerFrame \in 1..MaxChannels
        /\ x.mBitsPerChannel = 8 * size_in_bytes(s)
        /\ x.mBytesPerFrame =
              size_in_bytes(s) * (IF non_interleaved THEN 1 ELSE x.mChannelsPerFrame)
        /\ x.mBytesPerPacket = x.mBytesPerFrame
        /\ x.mFramesPerPacket = 1
        /\ x.mReserved = 0

\* C13: for every supported descriptor x (linear PCM, packed, F32, I32, I16
\* or I8, interleaved or not, 1..N channels) from_asbd(x) succeeds and
\* to_asbd of its result is x, field by field.
C13_RoundTrip ==
    (decoded.status # "none" /\ SupportedAsbd(asbd))
       => /\ decoded.status = "Ok"
          /\ encoded.status # "none" => encoded = [status |-> "Ok", asbd |-> asbd]

\* C14: from_asbd succeeds only on a descriptor that is linear PCM, has
\* IS_PACKED and IS_FLOAT or IS_SIGNED_INTEGER, and pairs float with 32 bits
\* per channel or signed integer with 8, 16 or 32; on every other one it
\* returns FormatNotSupported.
C14_UnsupportedIsRejected ==
    /\ decoded.status \in {"none", "Ok", "Constructed", "FormatNotSupported"}
    /\ (asbd # NoAsbd /\ decoded.status = "Ok")
          => /\ asbd.mFormatID = kAudioFormatLinearPCM
             /\ Contains(asbd.mFormatFlags, IS_PACKED)
             /\ \/ Contains(asbd.mFormatFlags, IS_FLOAT) /\ asbd.mBitsPerChannel = 32
                \/ /\ Contains(asbd.mFormatFlags, IS_SIGNED_INTEGER)
                   /\ asbd.mBitsPerChannel \in {8, 16, 32}

\* C15: for every StreamFormat with at least one channel, to_asbd returns a
\* descriptor with bytes_per_frame = sample size * (channels if interleaved,
\* else 1), bytes_per_packet = bytes_per_frame, frames_per_packet = 1,
\* bits_per_channel = 8 * sample size, the linear PCM format id and the
\* StreamFormat's flags.
C15_ToAsbdFields ==
    (/\ decoded.status \in {"Ok", "Constructed"}
     /\ decoded.format.channels >= 1
     /\ encoded.status # "none")
       => LET f == decoded.format
              size == size_in_bytes(f.sample_format)
              a == encoded.asbd
          IN  /\ encoded.status = "Ok"
              /\ IF Contains(f.flags, IS_NON_INTERLEAVED)
                 THEN a.mBytesPerFrame = size
                 ELSE /\ a.mBytesPerFrame % size = 0
                      /\ a.mBytesPerFrame \div size = f.channels
              /\ a.mBytesPerPacket = a.mBytesPerFrame
              /\ a.mFramesPerPacket = 1
              /\ a.mBitsPerChannel = 8 * size
              /\ a.mFormatID = kAudioFormatLinearPCM
              /\ a.mFormatFlags = f.flags

\* C16: a StreamFormat that from_asbd returned has at least one channel, and
\* to_asbd encodes it without a failure (no division by zero, no overflow).
C16_DecodedIsEncodable ==
    /\ decoded.status = "Ok" => decoded.format.channels >= 1
    /\ (decoded.status = "Ok" /\ encoded.status # "none") => encoded.status = "Ok"

\* C17: iterating a NonInterleaved view (channels or channels_mut) never
\* yields more channel slices than the channel count of the unit's stream
\* format, even when the buffer list declares more buffers than that or has
\* spare slots in its 128-element array.
C17_AtMostChannelCountSlices ==
    chan.made <= stream_format.channels

\* C17, amended: the iteration never yields more slices than the buffer list
\* declares (mNumberBuffers), nor more than the 128 slots of its array; a
\* list that declares more buffers than the stream format has channels is
\* iterated to its declared count.
C17_AtMostDeclaredBuffers ==
    /\ chan.made <= io.mNumberBuffers
    /\ chan.made <= BufferListCapacity
    /\ chan.ended =>
          chan.made = IF io.mNumberBuffers < BufferListCapacity
                      THEN io.mNumberBuffers
                      ELSE BufferListCapacity

\* An iterator has run to its end over a list that declares more buffers
\* than the format has channels, the array's other slots being spare.
C17_Witness ==
    /\ api = "typed"
    /\ chan.ended
    /\ io.mNumberBuffers > stream_format.channels
    /\ io.mNumberBuffers < BufferListCapacity
    /\ chan.made = io.mNumberBuffers

C19_ClosureCalledOnceWithOsValues ==
    api = "typed" =>
        /\ io_pc = "in_closure" =>
              /\ cb_args.calls = 1
              /\ cb_args.num_frames = io.num_frames
              /\ cb_args.bus_number = io.bus_number
              /\ cb_args.time_stamp = io.time_stamp
        /\ cb_args.log = clock.sent
        /\ \A i, j \in DOMAIN cb_args.log :
              i < j => cb_args.log[i].time_stamp < cb_args.log[j].time_stamp
        /\ (\A i \in DOMAIN clock.sent : clock.sent[i].num_frames = 512) =>
              \A i \in DOMAIN cb_args.log : cb_args.log[i].num_frames = 512

\* The closure is in its second call, both of 512 frames, on bus 1.
C19_Witness ==
    /\ api = "typed"
    /\ io_pc = "in_closure"
    /\ io.bus_number = 1
    /\ Len(cb_args.log) = 2
    /\ \A i \in DOMAIN cb_args.log : cb_args.log[i].num_frames = 512

\* C20: a trampoline invocation has made no heap allocation when it calls
\* the closure, whatever the buffer count.  (Neither trampoline acquires a
\* lock, so allocations are all there is to count.)
C20_NoAllocationBeforeClosure ==
    io_pc = "in_closure" => heap = 0

\* C25: when the OS property-set call of set_render_callback fails, the call
\* returns that OS error and leaves the handle as it was: the callback
\* attached before (if any) is still registered with the OS, still stored
\* in the handle and not released.
C25_FailedSetLeavesHandleUnchanged ==
    [][ (/\ pc = "idle"
         /\ next_id' = next_id + 1 \/ call' # call
         /\ call'.op = "set_render_callback"
         /\ call'.os_set
         /\ call'.result = "OSError")
          => /\ pc' = "idle"
             /\ UNCHANGED <<os_callback, maybe_callback, drop_count, released_by,
                            replacements>> ]_vars

\* A set_render_callback on a handle with an attached callback has returned
\* the OS error of its property-set call.
C25_Witness ==
    /\ pc = "idle"
    /\ call.op = "set_render_callback"
    /\ call.os_set
    /\ call.result = "OSError"
    /\ call.ptr # None
    /\ maybe_callback # None
    /\ maybe_callback # call.ptr
    /\ os_callback.set
    /\ os_callback.refcon = maybe_callback
    /\ drop_count[maybe_callback] = 0

\* C26: at every trampoline invocation the data type of the attached
\* closure's view matches the unit's current stream format, the one last
\* configured with set_stream_format, whatever the order of the
\* set_stream_format and set_render_callback calls.
C26_ViewMatchesCurrentFormat ==
    [][ (RenderBegin /\ rt_deref' = "live")
          => does_stream_format_match(os_callback.view, os_format[ScopeInput]) ]_vars

\* C27: the stream format read back from the unit, which is also the one
\* set_render_callback validates the view type against, is the one last
\* configured.  Both scopes hold the same format until the first
\* set_stream_format, and only set_stream_format writes one, so the input
\* scope's format is the last one configured.
C27_ReadBackIsLastConfigured ==
    stream_format = os_format[ScopeInput]

\* C21: an OS failure is surfaced as an error that keeps the status: for
\* every nonzero status s, Error::from_os_status(s) is an Err whose
\* as_os_status() is s, for the recognised codes of every family and for
\* the codes no family knows.
C21_StatusIsKept ==
    (err_call.fn = "Error" /\ err_call.os_status # 0)
        => /\ ~err_call.ok
           /\ as_os_status(err_call.err) = err_call.os_status
           /\ err_back.done => err_back.os_status = err_call.os_status

\* C29: every from_os_status, the top-level one and each family's, returns
\* Ok(()) exactly when the status is 0 and an Err for every other status.
C29_OkExactlyForZero ==
    err_call.fn # "none" => (err_call.ok <=> err_call.os_status = 0)

\* C30: decoding a Linear PCM format drops no flag bit: for the Linear PCM
\* id and every flag word w, words of several flags included,
\* from_format_and_flag(id, Some(w)) is an AudioFormat whose
\* to_format_and_flag() is (id, Some(w)).
C30_LinearPcmFlagsRoundTrip ==
    (pcm_call.format = kAudioFormatLinearPCM /\ pcm_call.flag.some)
        => /\ pcm_call.decoded.some
           /\ pcm_call.decoded.value.flag = pcm_call.flag
           /\ pcm_call.encoded.done =>
                 /\ pcm_call.encoded.format = kAudioFormatLinearPCM
                 /\ pcm_call.encoded.flag = pcm_call.flag

\* C28: insert, remove and toggle of the action-flags Handle change exactly
\* the bits passed in the word the audio unit owns and leave every other
\* bit of it, the bits of no declared flag included, as it was.
C28_OnlyPassedBitsChange ==
    /\ flag_op.op = "insert" => flag_word = flag_op.before \cup flag_op.other
    /\ flag_op.op = "remove" => flag_word = flag_op.before \ flag_op.other
    /\ flag_op.op = "toggle" =>
          flag_word = (flag_op.before \ flag_op.other) \cup (flag_op.other \ flag_op.before)

\* C22: a RateListener made without a Sender queues every notification
\* exactly once, in the order of arrival, also while the OS thread runs
\* the callback during the calls: copy_values returns the queued rates
\* oldest first and leaves the queue as it was, drain_values returns them
\* and leaves the queue empty, get_nbr_values is their number.
C22_EveryNotificationQueuedOnce ==
    /\ (listener.state = "live" /\ ~listener.sync_channel /\ poll.pc = "idle")
          => listener.queue = Queued
    /\ (poll.pc = "idle" /\ poll.fn = "copy_values")
          => poll.result = poll.history /\ poll.left = poll.history
    /\ (poll.pc = "idle" /\ poll.fn = "drain_values")
          => poll.result = poll.history /\ poll.left = <<>>
    /\ (poll.pc = "idle" /\ poll.fn = "get_nbr_values")
          => poll.nbr = Len(poll.history) /\ poll.left = poll.history

\* Two different rates were drained, the older first, while the callback
\* of a third notification was waiting.
C22_Witness ==
    /\ poll.pc = "idle"
    /\ poll.fn = "drain_values"
    /\ Len(poll.result) = 2
    /\ poll.result[1] # poll.result[2]
    /\ os_thread.pc = "called"
    /\ Len(received) = 1

\* C23: no OS registration outlives its RateListener: unregister on a
\* registered listener removes the OS listener and clears the stored
\* callback, unregister on an unregistered one makes no OS call and
\* returns Ok, dropping a listener unregisters it, and on every return of
\* set_device_sample_rate after it registered its listener the OS holds
\* no listener.
C23_NoRegistrationOutlivesListener ==
    /\ listener.state = "dropped" => ~device.registered
    /\ (poll.fn = "unregister" /\ poll.was_set)
          => ~device.registered /\ ~listener.rate_listener
    /\ (poll.fn = "unregister" /\ ~poll.was_set)
          => poll.os_calls = 0 /\ poll.status = Ok
    /\ (set_call.pc = "returned" /\ set_call.registered) => ~device.registered

\* C24: set_device_sample_rate ends in one of three ways: Ok without a
\* write when the device rate was already the requested one, as
\* integers; UnsupportedSampleRate without a write when no available range
\* has minimum = maximum = the requested rate; otherwise a write, and Ok
\* after a notification reported the requested rate or
\* UnsupportedSampleRate after more than two seconds.
C24_OutcomeOfSetDeviceSampleRate ==
    set_call.pc = "returned" =>
        \/ /\ set_call.already
           /\ set_call.result = Ok
           /\ ~set_call.wrote
        \/ /\ ~set_call.already
           /\ ~set_call.available
           /\ set_call.result = Err(ErrorOf("UnsupportedSampleRate"))
           /\ ~set_call.wrote
        \/ /\ ~set_call.already
           /\ set_call.available
           /\ set_call.wrote
           /\ \/ set_call.result = Ok /\ set_call.reported
              \/ /\ set_call.result = Err(ErrorOf("UnsupportedSampleRate"))
                 /\ set_call.elapsed > TwoSeconds

=============================================================================
